---- MODULE Spec2Model ----
(***************************************************************************)
(* Model of examples/loadlib/addlib.c: the export-visibility macro         *)
(* ADDLIB_API, the exported function add(int, int), and the life cycle of  *)
(* the shared library built from it (compile, load, look up "add", call).  *)
(*                                                                         *)
(* `a + b` on two ints is a signed addition.  When the mathematical sum    *)
(* does not fit the int type the behaviour is undefined in C; the builds   *)
(* of this one-expression function produce one of two outcomes: the sum    *)
(* wraps modulo 2^w (plain builds, -fwrapv), or the call traps and the     *)
(* process is terminated (-ftrapv, -fsanitize=signed-integer-overflow).    *)
(* The outcome is a property of the build, chosen in Init (overflowTraps). *)
(***************************************************************************)
EXTENDS Integers, Sequences, FiniteSets

VARIABLES
    WIN32,            \* compile-time switch _WIN32 (Windows target)
    ADDLIB_EXPORTS,   \* compile-time switch ADDLIB_EXPORTS
    overflowTraps,    \* the build's outcome for a signed overflow
    built,            \* the shared library has been compiled
    marking,          \* expansion of ADDLIB_API in the compiled unit
    exported,         \* names in the library's dynamic symbol table
    loaded,           \* the host has loaded the library
    lastLookup,       \* the host's last symbol lookup and its result
    fp,               \* the host's function pointer (result of a lookup of add)
    pc, args, ret,    \* per host thread: position, arguments, outcome of add
    x, y, z,          \* inputs of the algebraic evaluations
    step,             \* position in the sequence of evaluations
    xy, yx, yz,       \* outcomes of add(x,y), add(y,x), add(y,z)
    left, right       \* outcomes of add(add(x,y),z) and add(x,add(y,z))

build == <<WIN32, ADDLIB_EXPORTS, overflowTraps>>
lifecycle == <<built, marking, exported, loaded, lastLookup, fp>>
threads == <<pc, args, ret>>
algebra == <<x, y, z, step, xy, yx, yz, left, right>>
vars == <<build, lifecycle, threads, algebra>>

(***************************************************************************)
(* The int type.  IntBits is its width in the model.                       *)
(***************************************************************************)
IntBits == 4
MinInt == -(2 ^ (IntBits - 1))
MaxInt == 2 ^ (IntBits - 1) - 1
CInt == MinInt .. MaxInt

\* The value of CInt congruent to n modulo 2^IntBits.
Wrap(n) == ((n - MinInt) % (2 ^ IntBits)) + MinInt

\* Outcome of a call: it returned val, or it trapped, or there is none yet.
Returned(v) == [kind |-> "ret", val |-> v]
Trapped == [kind |-> "trap", val |-> 0]
NoOutcome == [kind |-> "none", val |-> 0]

(***************************************************************************)
(* int add(int a, int b) { return a + b; }                                 *)
(***************************************************************************)
\* A subtraction in place of the addition.
add_minus(a, b) ==
    LET s == a - b
    IN  IF s \in CInt THEN Returned(s)
        ELSE IF overflowTraps THEN Trapped ELSE Returned(Wrap(s))

\* The arguments kept in storage shared by all callers: a call in flight
\* on another thread overwrites them.
add_static(a, b) ==
    LET others == {u \in DOMAIN pc : pc[u] = "called" /\ args[u] # <<a, b>>}
        use == IF others = {} THEN <<a, b>>
               ELSE args[CHOOSE u \in others : TRUE]
        s == use[1] + use[2]
    IN  IF s \in CInt THEN Returned(s)
        ELSE IF overflowTraps THEN Trapped ELSE Returned(Wrap(s))

add(a, b) ==
    LET s == a + b
    IN  IF s \in CInt THEN Returned(s)
        ELSE IF overflowTraps THEN Trapped ELSE Returned(Wrap(s))

\* add applied to the outcome of an earlier call: a trapped inner call
\* leaves nothing to apply add to.
addL(o, b) == IF o.kind = "ret" THEN add(o.val, b) ELSE Trapped
addR(a, o) == IF o.kind = "ret" THEN add(a, o.val) ELSE Trapped

(***************************************************************************)
(* #ifdef _WIN32 / #ifdef ADDLIB_EXPORTS ... #define ADDLIB_API ...        *)
(***************************************************************************)
\* The two Windows branches swapped.
ADDLIB_API_swapped(win32, exports) ==
    IF win32
    THEN IF exports THEN "__declspec(dllimport)" ELSE "__declspec(dllexport)"
    ELSE ""

ADDLIB_API(win32, exports) ==
    IF win32
    THEN IF exports THEN "__declspec(dllexport)" ELSE "__declspec(dllimport)"
    ELSE ""

\* The declaration `ADDLIB_API int add(int a, int b);`
AddSymbol == [name |-> "add", params |-> <<"int", "int">>, result |-> "int"]
NullSymbol == [name |-> "", params |-> <<>>, result |-> ""]

\* add given internal linkage: nothing is exported.
ExportTables_static(win32, exports) == {{}}

\* The dynamic symbol tables a compilation can produce.  add is defined with
\* external linkage; off Windows that alone exports it, on Windows the
\* dllexport marking does.  A Windows unit compiled without ADDLIB_EXPORTS
\* declares add dllimport and then defines it: whether the definition is
\* exported depends on the toolchain.
ExportTables(win32, exports) ==
    IF win32 /\ ~exports THEN {{}, {"add"}} ELSE {{"add"}}

(***************************************************************************)
(* Bounds of the exploration.                                              *)
(***************************************************************************)
NThreads == 2
Threads == 1 .. NThreads
\* Arguments the host threads call add with: the two extremes and a small
\* value, so that sums overflow upwards, downwards, and not at all.
CallInputs == {MinInt, 1, MaxInt}
LookupNames == {"add", "sub"}
NoLookup == [name |-> "", loaded |-> FALSE, result |-> NullSymbol]

Alive == \A t \in Threads : pc[t] # "trapped"

InitBuild ==
    /\ WIN32 \in BOOLEAN
    /\ ADDLIB_EXPORTS \in BOOLEAN
    /\ overflowTraps \in BOOLEAN

InitLifecycle ==
    /\ built = FALSE
    /\ marking = ""
    /\ exported = {}
    /\ loaded = FALSE
    /\ lastLookup = NoLookup
    /\ fp = NullSymbol

InitThreads ==
    /\ pc = [t \in Threads |-> "idle"]
    /\ args = [t \in Threads |-> <<0, 0>>]
    /\ ret = [t \in Threads |-> NoOutcome]

InitAlgebra ==
    /\ step = 0
    /\ xy = NoOutcome
    /\ yx = NoOutcome
    /\ yz = NoOutcome
    /\ left = NoOutcome
    /\ right = NoOutcome

(***************************************************************************)
(* Life cycle of the library and the host's calls.                         *)
(***************************************************************************)
Init ==
    /\ InitBuild
    /\ InitLifecycle
    /\ InitThreads
    /\ InitAlgebra
    /\ x = 0 /\ y = 0 /\ z = 0

\* gcc [-DADDLIB_EXPORTS] -shared -o addlib.dll addlib.c
Compile ==
    /\ ~built
    /\ built' = TRUE
    /\ marking' = ADDLIB_API(WIN32, ADDLIB_EXPORTS)
    /\ \E tbl \in ExportTables(WIN32, ADDLIB_EXPORTS) : exported' = tbl
    /\ UNCHANGED <<loaded, lastLookup, fp>>
    /\ UNCHANGED <<build, threads, algebra>>

\* The host loads the compiled library.
Load ==
    /\ built
    /\ ~loaded
    /\ Alive
    /\ loaded' = TRUE
    /\ UNCHANGED <<built, marking, exported, lastLookup, fp>>
    /\ UNCHANGED <<build, threads, algebra>>

\* The host looks a symbol up by name.
Lookup(name) ==
    /\ Alive
    /\ LET found == IF loaded /\ name \in exported /\ name = AddSymbol.name
                    THEN AddSymbol ELSE NullSymbol
       IN  /\ lastLookup' = [name |-> name, loaded |-> loaded, result |-> found]
           /\ fp' = IF name = AddSymbol.name THEN found ELSE fp
    /\ UNCHANGED <<built, marking, exported, loaded>>
    /\ UNCHANGED <<build, threads, algebra>>

\* Thread t calls add(a, b) through the resolved pointer.
Call(t, a, b) ==
    /\ Alive
    /\ fp = AddSymbol
    /\ pc[t] = "idle"
    /\ pc' = [pc EXCEPT ![t] = "called"]
    /\ args' = [args EXCEPT ![t] = <<a, b>>]
    /\ ret' = [ret EXCEPT ![t] = NoOutcome]
    /\ UNCHANGED <<build, lifecycle, algebra>>

\* The result of thread t's call delivered in storage shared by all callers.
AddBody_shared(t) ==
    LET o == add(args[t][1], args[t][2])
    IN  /\ ret' = [u \in Threads |-> o]
        /\ pc' = [pc EXCEPT ![t] = IF o.kind = "trap" THEN "trapped" ELSE "returned"]
        /\ UNCHANGED <<args, build, lifecycle, algebra>>

\* The body of add run for thread t's call: `return a + b;` and nothing else.
AddBody(t) ==
    LET o == add(args[t][1], args[t][2])
    IN  /\ ret' = [ret EXCEPT ![t] = o]
        /\ pc' = [pc EXCEPT ![t] = IF o.kind = "trap" THEN "trapped" ELSE "returned"]
        /\ UNCHANGED <<args, build, lifecycle, algebra>>

Return(t) ==
    /\ Alive
    /\ pc[t] = "called"
    /\ AddBody(t)

\* Thread t has used the value and is ready for its next call.
Resume(t) ==
    /\ Alive
    /\ pc[t] = "returned"
    /\ pc' = [pc EXCEPT ![t] = "idle"]
    /\ UNCHANGED <<args, ret, build, lifecycle, algebra>>

Next ==
    \/ Compile
    \/ Load
    \/ \E name \in LookupNames : Lookup(name)
    \/ \E t \in Threads, a \in CallInputs, b \in CallInputs : Call(t, a, b)
    \/ \E t \in Threads : Return(t)
    \/ \E t \in Threads : Resume(t)

Spec == Init /\ [][Next]_vars

(***************************************************************************)
(* add as a function: every triple of ints, each build, the five           *)
(* evaluations in turn.                                                    *)
(***************************************************************************)
\* The library is the one the documented command builds; the treatment of
\* signed overflow is left to the build.
InitAdd ==
    /\ WIN32 = FALSE
    /\ ADDLIB_EXPORTS = TRUE
    /\ overflowTraps \in BOOLEAN
    /\ InitLifecycle
    /\ InitThreads
    /\ InitAlgebra
    /\ x \in CInt /\ y \in CInt /\ z \in CInt

EvalXY ==
    /\ step = 0
    /\ xy' = add(x, y)
    /\ step' = 1
    /\ UNCHANGED <<x, y, z, yx, yz, left, right, build, lifecycle, threads>>

EvalYX ==
    /\ step = 1
    /\ yx' = add(y, x)
    /\ step' = 2
    /\ UNCHANGED <<x, y, z, xy, yz, left, right, build, lifecycle, threads>>

EvalYZ ==
    /\ step = 2
    /\ yz' = add(y, z)
    /\ step' = 3
    /\ UNCHANGED <<x, y, z, xy, yx, left, right, build, lifecycle, threads>>

EvalLeft ==
    /\ step = 3
    /\ left' = addL(xy, z)
    /\ step' = 4
    /\ UNCHANGED <<x, y, z, xy, yx, yz, right, build, lifecycle, threads>>

EvalRight ==
    /\ step = 4
    /\ right' = addR(x, yz)
    /\ step' = 5
    /\ UNCHANGED <<x, y, z, xy, yx, yz, left, build, lifecycle, threads>>

NextAdd ==
    \/ EvalXY
    \/ EvalYX
    \/ EvalYZ
    \/ EvalLeft
    \/ EvalRight

SpecAdd == InitAdd /\ [][NextAdd]_vars

(***************************************************************************)
(* Properties.                                                             *)
(***************************************************************************)
InRange(a, b) == a + b \in CInt

C2_Examples ==
    step >= 1 =>
        /\ (x = 0 /\ y = 0) => xy = Returned(0)
        /\ (x = 2 /\ y = 3) => xy = Returned(5)
        /\ (x = -1 /\ y = 1) => xy = Returned(0)

C2_Witness == step >= 1 /\ x = 2 /\ y = 3 /\ xy = Returned(5)

\* C3: a lookup of "add" made before the library is loaded fails; with
\* ADDLIB_EXPORTS defined, a lookup of "add" made once it is loaded resolves
\* to the function int add(int, int); a resolved pointer implies a load.
C3_LookupAfterLoad ==
    /\ fp = AddSymbol => loaded
    /\ lastLookup.result = AddSymbol => lastLookup.loaded /\ lastLookup.name = "add"
    /\ (lastLookup.name = "add" /\ lastLookup.loaded /\ ADDLIB_EXPORTS) =>
           /\ lastLookup.result.name = "add"
           /\ lastLookup.result.params = <<"int", "int">>
           /\ lastLookup.result.result = "int"

C3_Witness ==
    /\ ADDLIB_EXPORTS
    /\ WIN32
    /\ loaded
    /\ lastLookup = [name |-> "add", loaded |-> TRUE, result |-> AddSymbol]

\* C4: the marking ADDLIB_API is decided by the two switches alone: export
\* on Windows with ADDLIB_EXPORTS, import on Windows without it, and empty
\* on every other target.
C4_Marking ==
    built =>
        /\ (WIN32 /\ ADDLIB_EXPORTS) => marking = "__declspec(dllexport)"
        /\ (WIN32 /\ ~ADDLIB_EXPORTS) => marking = "__declspec(dllimport)"
        /\ ~WIN32 => marking = ""

C4_Witness ==
    built /\ WIN32 /\ ~ADDLIB_EXPORTS /\ marking = "__declspec(dllimport)"

C6_NoSideEffects ==
    [][\A t \in Threads :
          (pc[t] = "called" /\ pc'[t] # "called") =>
              /\ UNCHANGED <<build, lifecycle, algebra, args>>
              /\ \A u \in Threads \ {t} : pc'[u] = pc[u] /\ ret'[u] = ret[u]]_vars

C6_Witness ==
    /\ pc[1] = "returned"
    /\ pc[2] = "returned"
    /\ ret[1] # ret[2]

\* C7: the value add returns depends on its arguments alone: two calls with
\* the same arguments have returned the same value, whatever calls were
\* made before or between them.
C7_Deterministic ==
    \A t, u \in Threads :
        (ret[t].kind = "ret" /\ ret[u].kind = "ret" /\ args[t] = args[u])
            => ret[t] = ret[u]

C7_Witness ==
    /\ pc[1] = "idle"
    /\ ret[1] = Returned(MinInt)
    /\ ret[2] = Returned(MinInt)
    /\ args[1] = <<MaxInt, 1>>
    /\ args[2] = <<MaxInt, 1>>

C9_Commutative ==
    step >= 2 => xy = yx

C9_Witness ==
    /\ step >= 2
    /\ x # y
    /\ ~InRange(x, y)
    /\ xy.kind = "ret"
    /\ yx = xy

====
